---- MODULE Spec2Model ----
(***************************************************************************)
(* ForkMemoryBackend (src/backend/memory_or_fork.rs): an in-memory overlay *)
(* of account state over a remote JSON-RPC provider.  Reads (&self) answer *)
(* from the overlay or query the provider; apply (&mut self) folds a batch *)
(* of Apply::Modify / Apply::Delete operations and logs into the overlay.  *)
(*                                                                         *)
(* Option<T> is modelled as a sequence of length 0 (None) or 1 (Some(v)),  *)
(* Result<T, E> of a provider call likewise (Err is the empty sequence).   *)
(* A BTreeMap is a function whose DOMAIN is the set of its keys.           *)
(***************************************************************************)
EXTENDS Integers, Sequences, FiniteSets, TLC

\* ---------------------------------------------------------------- bounds

\* Largest U256 / H256 value of the model: values range over 0..MaxVal,
\* H256::default() and U256::zero() being 0.
MaxVal == 1
\* Longest `values` batch one apply call is handed.
MaxDiffLen == 2
\* Longest `storage` update list of one Apply::Modify.
MaxUpdates == 2
\* Longest event log the model lets the overlay accumulate.
MaxLogs == 2
\* Most reads of one field the read counters follow between two commits.
MaxReads == 2
\* Largest block number of a vicinity and of a block_hash argument.
MaxBlock == 3
\* Longest block_hashes window of a vicinity.
MaxWindow == 2

\* ------------------------------------------------------------ data types

None == <<>>
Some(v) == <<v>>
IsSome(o) == Len(o) = 1
Unwrap(o) == o[1]

\* Result of a provider call: Ok(v) or Err.
Err == <<>>
Ok(v) == <<v>>
IsOk(r) == Len(r) = 1

Addresses == {"A1", "A2"}
Keys == {"K1", "K2"}
U256 == 0..MaxVal
H256 == 0..MaxVal
Codes == {<<>>, <<1>>}
Logs == {"L1", "L2"}

\* The empty BTreeMap.
EmptyMap == <<>>

\* struct ForkMemoryAccount { nonce, balance, storage, code }, all Option.
ForkMemoryAccount(n, b, s, c) == [nonce |-> n, balance |-> b, storage |-> s, code |-> c]

\* #[derive(Default)]: every field None.
DefaultAccount == ForkMemoryAccount(None, None, None, None)

\* BTreeMap::insert, BTreeMap::remove.
MapInsert(m, k, v) == [x \in (DOMAIN m) \cup {k} |-> IF x = k THEN v ELSE m[x]]
MapRemove(m, k) == [x \in (DOMAIN m) \ {k} |-> m[x]]

\* Every BTreeMap<H256, H256> over Keys with values in vals.
StorageMaps(vals) == UNION {[ks -> vals] : ks \in SUBSET Keys}

\* Sequences over S of length at most n.
SeqUpTo(S, n) == UNION {[1..k -> S] : k \in 0..n}

\* ------------------------------------------------------- remote provider

\* Every request sent without a block, whatever block the caller names.
Query_latest(method, address, index, blk, answer) ==
  [method |-> method, address |-> address, index |-> index, block |-> <<>>, answer |-> answer]

\* One JSON-RPC request the backend sends, with the block it names
\* (Option<BlockNumber>) and the provider's answer.
Query(method, address, index, blk, answer) ==
  [method |-> method, address |-> address, index |-> index, block |-> blk, answer |-> answer]

NoIndex == "-"

\* What the provider can answer to a balance, nonce or storage request.
WordAnswers == {Ok(v) : v \in U256} \cup {Err}
\* What the provider can answer to a code request.
CodeAnswers == {Ok(c) : c \in Codes} \cup {Err}

\* A failed request answered as if the provider had said zero.
zero_substituted == <<0>>

\* Outcome of a read: the value returned, or a panic (.expect on an Err).
Panic == <<>>
Returned(v) == <<v>>
Panicked(res) == Len(res) = 0

\* What a read hands back to the action: its outcome, the requests it sent
\* in order, and the local clone `account` as the read left it.
ReadOut(res, qs, acct) == [result |-> res, queries |-> qs, account |-> acct]

\* ---------------------------------------------------- execution context

\* MemoryVicinity, as far as block_hash reads it.
MemoryVicinity(number, hashes) == [block_number |-> number, block_hashes |-> hashes]

\* U256 subtraction: primitive_types panics on overflow (None here).
U256Sub(a, b) == IF a >= b THEN Some(a - b) ELSE None

\* The window read one place too far back: block_hashes[block_number - number].
block_hash_one_off(vic, number) ==
  IF number >= vic.block_number \/ vic.block_number - number - 1 >= Len(vic.block_hashes)
  THEN Returned(0)
  ELSE IF vic.block_number - number + 1 \in DOMAIN vic.block_hashes
       THEN Returned(vic.block_hashes[vic.block_number - number + 1])
       ELSE Returned(0)

\* fn block_hash(&self, number): H256::default() at or after the current
\* block or beyond the window, else block_hashes[block_number - number - 1].
\* Vec indexing is 0-based, a TLA+ sequence 1-based.
block_hash(vic, number) ==
  IF number >= vic.block_number
  THEN Returned(0)
  ELSE LET d1 == U256Sub(vic.block_number, number)
           d2 == IF IsSome(d1) THEN U256Sub(Unwrap(d1), 1) ELSE None
       IN IF ~IsSome(d2) THEN Panic
          ELSE IF Unwrap(d2) >= Len(vic.block_hashes) THEN Returned(0)
          ELSE IF Unwrap(d2) + 1 \in DOMAIN vic.block_hashes
               THEN Returned(vic.block_hashes[Unwrap(d2) + 1])
               ELSE Panic

\* ------------------------------------------------------------------ reads

\* A record with nothing resolved taken for no record.
exists_resolved(st, address) == address \in DOMAIN st /\ st[address] # DefaultAccount

\* fn exists(&self, address): self.state.contains_key(&address).
exists(st, address) == address \in DOMAIN st

\* A field holding zero taken for a field holding nothing.
has_nonzero_value(field) == IsSome(field) /\ Unwrap(field) # 0

\* Lines 101 and 110, `if let Some(..) = account.<field>`: the field holds
\* a value, whatever the value.
has_value(field) == IsSome(field)

\* fn basic(&self, address).  ans holds the provider's answers to the
\* requests of this call, in the order the call sends them.
basic(st, blk, address, ans) ==
  IF address \notin DOMAIN st
  THEN \* lines 85-94: the record is built from two provider calls.
       LET q1 == Query("get_balance", address, NoIndex, blk, ans[1])
           q2 == Query("get_transaction_count", address, NoIndex, blk, ans[2])
       IN IF ~IsOk(q1.answer) THEN ReadOut(Panic, <<q1>>, DefaultAccount)
          ELSE IF ~IsOk(q2.answer) THEN ReadOut(Panic, <<q1, q2>>, DefaultAccount)
          ELSE ReadOut(Returned([balance |-> Unwrap(q1.answer), nonce |-> Unwrap(q2.answer)]),
                       <<q1, q2>>,
                       ForkMemoryAccount(Some(Unwrap(q2.answer)), Some(Unwrap(q1.answer)), None, None))
  ELSE \* lines 83, 97-118: each None field is fetched on its own.
       LET account == st[address]
           qb == IF has_value(account.balance) THEN <<>>
                 ELSE <<Query("get_balance", address, NoIndex, blk, ans[1])>>
           okb == qb = <<>> \/ IsOk(qb[1].answer)
           balance == IF has_value(account.balance) THEN account.balance
                      ELSE IF okb THEN Some(Unwrap(qb[1].answer)) ELSE None
           qn == IF ~okb \/ has_value(account.nonce) THEN <<>>
                 ELSE <<Query("get_transaction_count", address, NoIndex, blk, ans[Len(qb) + 1])>>
           okn == qn = <<>> \/ IsOk(qn[1].answer)
           nonce == IF has_value(account.nonce) THEN account.nonce
                    ELSE IF okb /\ okn THEN Some(Unwrap(qn[1].answer)) ELSE None
           after == [account EXCEPT !.balance = balance, !.nonce = nonce]
       IN IF okb /\ okn
          THEN ReadOut(Returned([balance |-> Unwrap(balance), nonce |-> Unwrap(nonce)]),
                       qb \o qn, after)
          ELSE ReadOut(Panic, qb \o qn, after)

\* Lines 180-204 of fn code, which fn code_hash (122-146) and fn code_size
\* (151-175) repeat word for word: the local account with its code fetched
\* when the record is absent or its code is None.
account_code(st, blk, address, ans) ==
  LET q == Query("get_code", address, NoIndex, blk, ans[1])
      account == IF address \in DOMAIN st THEN st[address] ELSE DefaultAccount
  IN IF IsSome(account.code)
     THEN ReadOut(Returned(Unwrap(account.code)), <<>>, account)
     ELSE IF IsOk(q.answer)
          THEN ReadOut(Returned(Unwrap(q.answer)), <<q>>,
                       [account EXCEPT !.code = Some(Unwrap(q.answer))])
          ELSE ReadOut(Panic, <<q>>, account)

\* fn code(&self, address): the bytes.
code(st, blk, address, ans) == account_code(st, blk, address, ans)

\* fn code_size(&self, address): code.len().
code_size(st, blk, address, ans) ==
  LET r == account_code(st, blk, address, ans)
  IN IF Panicked(r.result) THEN r
     ELSE [r EXCEPT !.result = Returned(Len(Unwrap(r.result)))]

\* Keccak256::digest, an external primitive: a value determined by the
\* bytes and distinct from them.
Keccak256(bytes) == <<"keccak256", bytes>>

\* fn code_hash(&self, address): Keccak256 of the code.
code_hash(st, blk, address, ans) ==
  LET r == account_code(st, blk, address, ans)
  IN IF Panicked(r.result) THEN r
     ELSE [r EXCEPT !.result = Returned(Keccak256(Unwrap(r.result)))]

\* BTreeMap::entry(index).or_insert(default): the map with default stored
\* under index unless index is already a key.
or_insert(map, index, default) ==
  IF index \in DOMAIN map THEN map ELSE MapInsert(map, index, default)

\* fn storage(&self, address, index).  The argument of or_insert is
\* evaluated before or_insert is called, so the provider is asked (at block
\* None) whether or not index is a key of the map, and an Err panics.
storage(st, address, index, ans) ==
  LET account == IF address \in DOMAIN st THEN st[address]
                 ELSE ForkMemoryAccount(None, None, Some(EmptyMap), None)
      q == Query("get_storage_at", address, index, None, ans[1])
      acct_storage == IF IsSome(account.storage) THEN Unwrap(account.storage) ELSE EmptyMap
  IN IF ~IsOk(q.answer) THEN ReadOut(Panic, <<q>>, account)
     ELSE LET filled == or_insert(acct_storage, index, Unwrap(q.answer))
          IN ReadOut(Returned(filled[index]), <<q>>,
                     [account EXCEPT !.storage = Some(filled)])

\* The local clone stored back under its address.
write_back(st, address, account) ==
  [x \in (DOMAIN st) \cup {address} |-> IF x = address THEN account ELSE st[x]]

\* A read takes &self: the local clone `account` is dropped when the call
\* returns and self.state is what it was.
drop_clone(st, address, account) == st

\* ------------------------------------------------------------------ apply

\* enum Apply: Modify { address, basic, code, storage, reset_storage } and
\* Delete { address }.  storage is any IntoIterator of (index, value)
\* pairs: a sequence here, so an index may occur more than once.
Modify(address, bal, non, c, updates, reset) ==
  [tag |-> "Modify", address |-> address, basic |-> [balance |-> bal, nonce |-> non],
   code |-> c, storage |-> updates, reset_storage |-> reset]
Delete(address) == [tag |-> "Delete", address |-> address]

\* The stored map as it is, zero values kept.
prune_nothing(stored) == IF IsSome(stored) THEN Unwrap(stored) ELSE EmptyMap

\* Lines 266-270: the stored map (empty when None) without its entries
\* whose value is H256::default().
prune(stored) ==
  LET m == IF IsSome(stored) THEN Unwrap(stored) ELSE EmptyMap
  IN [k \in {x \in DOMAIN m : m[x] # 0} |-> m[k]]

\* Every pair stored, a zero value too.
merge_entry_keep_zero(s, index, value) == MapInsert(s, index, value)

\* Lines 275-279: one (index, value) of the update list.
merge_entry(s, index, value) ==
  IF value = 0 THEN MapRemove(s, index) ELSE MapInsert(s, index, value)

\* Lines 274-280: the update list, in its order.
RECURSIVE merge(_, _)
merge(s, updates) ==
  IF updates = <<>> THEN s
  ELSE merge(merge_entry(s, Head(updates)[1], Head(updates)[2]), Tail(updates))

\* Emptiness read off the values: zero balance, zero nonce, no code bytes.
is_empty_by_value(account) ==
  /\ account.balance \in {None, Some(0)}
  /\ account.nonce \in {None, Some(0)}
  /\ account.code \in {None, Some(<<>>)}

\* Lines 284-286: the value of the block that computes is_empty.
is_empty(account) ==
  account.balance = None /\ account.nonce = None /\ account.code = None

\* reset_storage ignored.
reset_ignored(stored, reset_storage) == stored

\* Lines 262-264: reset_storage forgets the stored map.
reset_if(stored, reset_storage) == IF reset_storage THEN None ELSE stored

\* The new balance and nonce added to the stored ones.
add_basic(account, new) ==
  [account EXCEPT
     !.balance = Some((IF IsSome(@) THEN Unwrap(@) ELSE 0) + new.balance),
     !.nonce = Some((IF IsSome(@) THEN Unwrap(@) ELSE 0) + new.nonce)]

\* Lines 256-257: balance and nonce are overwritten.
set_basic(account, new) ==
  [account EXCEPT !.balance = Some(new.balance), !.nonce = Some(new.nonce)]

\* A Modify without code leaving the code resolved to no bytes.
modify_account_empty_code(found, m) ==
  LET a1 == [set_basic(found, m.basic) EXCEPT
               !.code = IF IsSome(m.code) THEN m.code
                        ELSE IF IsSome(@) THEN @ ELSE Some(<<>>)]
      kept == prune(reset_if(a1.storage, m.reset_storage))
  IN [a1 EXCEPT !.storage = Some(merge(kept, m.storage))]

\* Lines 255-282: the record an Apply::Modify leaves under its address,
\* given the record found there (Default::default() when there was none).
modify_account(found, m) ==
  LET a1 == [set_basic(found, m.basic) EXCEPT
               !.code = IF IsSome(m.code) THEN m.code ELSE @]
      kept == prune(reset_if(a1.storage, m.reset_storage))
  IN [a1 EXCEPT !.storage = Some(merge(kept, m.storage))]

\* The record left where it is.
state_keep(st, address) == st

\* Every record removed.
state_clear(st, address) == <<>>

\* BTreeMap::remove on self.state.
state_remove(st, address) == [x \in (DOMAIN st) \ {address} |-> st[x]]

\* Lines 250-298: one element of `values`.
apply_one(st, a, delete_empty) ==
  IF a.tag = "Modify"
  THEN LET found == IF a.address \in DOMAIN st THEN st[a.address] ELSE DefaultAccount
           account == modify_account(found, a)
           st1 == [x \in (DOMAIN st) \cup {a.address} |->
                     IF x = a.address THEN account ELSE st[x]]
       IN IF is_empty(account) /\ delete_empty THEN state_remove(st1, a.address) ELSE st1
  ELSE state_remove(st, a.address)

\* The elements of `values` taken last to first.
RECURSIVE apply_values_reversed(_, _, _)
apply_values_reversed(st, values, delete_empty) ==
  IF values = <<>> THEN st
  ELSE apply_one(apply_values_reversed(st, Tail(values), delete_empty),
                 Head(values), delete_empty)

\* Lines 249-299: the loop over `values`.
RECURSIVE apply_values(_, _, _)
apply_values(st, values, delete_empty) ==
  IF values = <<>> THEN st
  ELSE apply_values(apply_one(st, Head(values), delete_empty), Tail(values), delete_empty)

\* Only the logs the overlay does not hold yet are pushed.
push_unseen_logs(log, new) ==
  log \o SelectSeq(new, LAMBDA l : \A i \in DOMAIN log : log[i] # l)

\* Lines 301-303: every log is pushed, in order.
push_logs(log, new) == log \o new

\* ------------------------------------------------------------------ state

\* The fields of ForkMemoryBackend (the provider is the environment), and
\* three history variables: op, the last call with its arguments, outcome
\* and provider requests; last_named, per address the last element of any
\* applied batch that named it; counts, per (address, field) the reads of
\* the field made while it was unresolved and the provider requests for
\* it, since the last apply.
\* twin is a second ForkMemoryBackend built from the same arguments and
\* handed the same apply calls, but read on its own, with its own provider
\* answers: its state, its logs and its last read.  Only SpecTwin builds
\* one (paired); elsewhere twin is NoTwin throughout.
VARIABLES vicinity, state, logs, block, op, last_named, counts, twin

vars == <<vicinity, state, logs, block, op, last_named, counts, twin>>

Fields == {"balance", "nonce", "code"} \cup Keys

\* again: the call is an apply handed the values of the apply just before.
Call(kind, address, index, number, res, qs, values, delete_empty, new_logs, again) ==
  [kind |-> kind, address |-> address, index |-> index, number |-> number,
   result |-> res, queries |-> qs,
   values |-> values, delete_empty |-> delete_empty, new_logs |-> new_logs,
   again |-> again]

ReadCall(kind, address, index, res, qs) ==
  Call(kind, address, index, 0, res, qs, <<>>, FALSE, <<>>, FALSE)

ReadKinds == {"exists", "basic", "code", "code_hash", "code_size", "storage", "block_hash"}

\* A panic (.expect on a provider Err) ends the session.
Running == ~Panicked(op.result)
TwinRunning == ~Panicked(twin.op.result)

ZeroCounts == [reads |-> [x \in Addresses \X Fields |-> 0],
               queries |-> [x \in Addresses \X Fields |-> 0]]

NeverNamed == [tag |-> "none"]

\* No second backend.
NoTwin ==
  [paired |-> FALSE, state |-> EmptyMap, logs |-> <<>>,
   op |-> ReadCall("new", NoIndex, NoIndex, Returned(TRUE), <<>>)]

\* fn new(vicinity, state, provider, bn): state and block as given, no logs.
InitWith(Vicinities, Seeds, Blocks) ==
  /\ vicinity \in Vicinities
  /\ state \in Seeds
  /\ logs = <<>>
  /\ block \in Blocks
  /\ op = Call("new", NoIndex, NoIndex, 0, Returned(TRUE), <<>>, <<>>, FALSE, <<>>, FALSE)
  /\ last_named = [a \in Addresses |-> NeverNamed]
  /\ counts = ZeroCounts
  /\ twin = NoTwin

\* The fields a read of this kind resolves.
ReadFields(kind, index) ==
  CASE kind = "basic" -> {"balance", "nonce"}
    [] kind \in {"code", "code_hash", "code_size"} -> {"code"}
    [] kind = "storage" -> {index}
    [] OTHER -> {}

\* Field f of address a holds no value in st: no record, a None field, or
\* (f a storage key) no map or a map without the key.
Unresolved(st, a, f) ==
  \/ a \notin DOMAIN st
  \/ IF f \in Keys
     THEN ~IsSome(st[a].storage) \/ f \notin DOMAIN Unwrap(st[a].storage)
     ELSE ~IsSome(st[a][f])

\* The provider request that fetches field f.
IsQueryFor(q, f) ==
  CASE f = "balance" -> q.method = "get_balance"
    [] f = "nonce" -> q.method = "get_transaction_count"
    [] f = "code" -> q.method = "get_code"
    [] OTHER -> q.method = "get_storage_at" /\ q.index = f

Count(qs, a, f) == Cardinality({i \in DOMAIN qs : qs[i].address = a /\ IsQueryFor(qs[i], f)})

\* counts after a read of st: reads counts the reads of a field made while
\* the field was unresolved, queries every request for the field.
Counted(c, st, kind, address, index, qs) ==
  [reads |-> [x \in Addresses \X Fields |->
                IF x[1] = address /\ x[2] \in ReadFields(kind, index)
                   /\ Unresolved(st, x[1], x[2])
                THEN c.reads[x] + 1 ELSE c.reads[x]],
   queries |-> [x \in Addresses \X Fields |-> c.queries[x] + Count(qs, x[1], x[2])]]

\* What every read does to the variables: self.state and self.logs are
\* behind &self; out is the ReadOut of the call.
Read(kind, address, index, out, track) ==
  /\ Running
  /\ track => \A f \in ReadFields(kind, index) :
                /\ counts.reads[<<address, f>>] < MaxReads
                /\ counts.queries[<<address, f>>] < MaxReads
  /\ op' = ReadCall(kind, address, index, out.result, out.queries)
  /\ state' = IF Panicked(out.result) THEN state
              ELSE drop_clone(state, address, out.account)
  /\ counts' = IF track THEN Counted(counts, state, kind, address, index, out.queries) ELSE counts
  /\ UNCHANGED <<vicinity, logs, block, last_named, twin>>

CallExists(As) ==
  \E address \in As :
    /\ Running
    /\ op' = ReadCall("exists", address, NoIndex, Returned(exists(state, address)), <<>>)
    /\ UNCHANGED <<vicinity, state, logs, block, last_named, counts, twin>>

CallBasic(As, track) ==
  \E address \in As, ans \in [1..2 -> WordAnswers] :
    Read("basic", address, NoIndex, basic(state, block, address, ans), track)

CallCode(As, track) ==
  \E address \in As, ans \in [1..1 -> CodeAnswers] :
    Read("code", address, NoIndex, code(state, block, address, ans), track)

CallCodeHash(As, track) ==
  \E address \in As, ans \in [1..1 -> CodeAnswers] :
    Read("code_hash", address, NoIndex, code_hash(state, block, address, ans), track)

CallCodeSize(As, track) ==
  \E address \in As, ans \in [1..1 -> CodeAnswers] :
    Read("code_size", address, NoIndex, code_size(state, block, address, ans), track)

CallStorage(As, Ks, track) ==
  \E address \in As, index \in Ks, ans \in [1..1 -> WordAnswers] :
    Read("storage", address, index, storage(state, address, index, ans), track)

CallBlockHash(Numbers) ==
  \E number \in Numbers :
    /\ Running
    /\ op' = Call("block_hash", NoIndex, NoIndex, number, block_hash(vicinity, number),
                  <<>>, <<>>, FALSE, <<>>, FALSE)
    /\ UNCHANGED <<vicinity, state, logs, block, last_named, counts, twin>>

\* What last_named keeps of an element: its kind and, of a Modify, basic.
Summary(a) ==
  IF a.tag = "Modify" THEN [tag |-> "Modify", basic |-> a.basic] ELSE [tag |-> "Delete"]

\* The last element of values naming address a, or what was recorded.
RECURSIVE Named(_, _, _)
Named(before, values, a) ==
  IF values = <<>> THEN before
  ELSE Named(IF Head(values).address = a THEN Summary(Head(values)) ELSE before,
             Tail(values), a)

\* A read of the twin: the same functions, on twin.state, with provider
\* answers of its own.
TwinRead(kind, address, index, out) ==
  /\ twin.paired
  /\ Running /\ TwinRunning
  /\ twin' = [twin EXCEPT
                !.state = IF Panicked(out.result) THEN @
                          ELSE drop_clone(@, address, out.account),
                !.op = ReadCall(kind, address, index, out.result, out.queries)]
  /\ UNCHANGED <<vicinity, state, logs, block, op, last_named, counts>>

TwinBasic(As) ==
  \E address \in As, ans \in [1..2 -> WordAnswers] :
    TwinRead("basic", address, NoIndex, basic(twin.state, block, address, ans))

TwinCode(As) ==
  \E address \in As, ans \in [1..1 -> CodeAnswers] :
    TwinRead("code", address, NoIndex, code(twin.state, block, address, ans))

TwinStorage(As, Ks) ==
  \E address \in As, index \in Ks, ans \in [1..1 -> WordAnswers] :
    TwinRead("storage", address, index, storage(twin.state, address, index, ans))

\* fn apply(&mut self, values, logs, delete_empty), called on the backend
\* and on its twin.
CallApply(Diffs, LogBatches) ==
  \E values \in Diffs, new_logs \in LogBatches, delete_empty \in BOOLEAN :
    /\ Running /\ TwinRunning
    /\ Len(logs) + Len(new_logs) <= MaxLogs
    /\ state' = apply_values(state, values, delete_empty)
    /\ logs' = push_logs(logs, new_logs)
    /\ op' = Call("apply", NoIndex, NoIndex, 0, Returned(TRUE), <<>>,
                  values, delete_empty, new_logs,
                  op.kind = "apply" /\ op.values = values)
    /\ last_named' = [a \in Addresses |-> Named(last_named[a], values, a)]
    /\ counts' = ZeroCounts
    /\ twin' = IF twin.paired
               THEN [twin EXCEPT !.state = apply_values(@, values, delete_empty),
                                 !.logs = push_logs(@, new_logs)]
               ELSE twin
    /\ UNCHANGED <<vicinity, block>>

\* ------------------------------------------------- inputs and specifications

\* Every Apply::Modify over the given components.
ModifyOps(As, Bs, Ns, Cs, Us, Rs) ==
  {Modify(a, b, n, c, u, r) : a \in As, b \in Bs, n \in Ns, c \in Cs, u \in Us, r \in Rs}
DeleteOps(As) == {Delete(a) : a \in As}

\* Records the overlay is seeded with: nothing resolved; everything
\* resolved to zero or empty; everything resolved to non-zero values; a
\* partly resolved record whose storage holds an explicit zero.
SeedAccounts ==
  { DefaultAccount,
    ForkMemoryAccount(Some(0), Some(0), Some(EmptyMap), Some(<<>>)),
    ForkMemoryAccount(Some(1), Some(1), Some([k \in {"K1"} |-> 1]), Some(<<1>>)),
    ForkMemoryAccount(None, Some(1), Some([k \in {"K1"} |-> 0]), None) }

\* Seeded states: empty, or one seeded record under A1.
Seeds == {EmptyMap} \cup {[a \in {"A1"} |-> acct] : acct \in SeedAccounts}

Vicinities == {MemoryVicinity(2, <<1>>)}
Blocks == {Some(1)}

Init == InitWith(Vicinities, Seeds, Blocks)

\* Spec: batches of one Modify of balance and nonce, and batches of up to
\* MaxDiffLen elements, each a Delete or a Modify of the balance, over both
\* addresses.
SingleOps == ModifyOps(Addresses, {0, 1}, {0, 1}, {None}, {<<>>}, {FALSE})
SeqOps ==
  DeleteOps(Addresses) \cup ModifyOps(Addresses, {0, 1}, {0}, {None}, {<<>>}, {FALSE})
SeqDiffs == SeqUpTo(SingleOps, 1) \cup SeqUpTo(SeqOps, MaxDiffLen)

Next ==
  \/ CallExists(Addresses)
  \/ CallBasic(Addresses, FALSE)
  \/ CallCode(Addresses, FALSE)
  \/ CallCodeHash(Addresses, FALSE)
  \/ CallCodeSize(Addresses, FALSE)
  \/ CallStorage(Addresses, {"K1"}, FALSE)
  \/ CallBlockHash(0..3)
  \/ CallApply(SeqDiffs, {<<>>})

Spec == Init /\ [][Next]_vars

\* SpecStorage: batches of one element, a Delete of A1 or a Modify of A1
\* with every update list of up to MaxUpdates pairs over both keys, with
\* and without reset_storage; the reads are exists and storage.
SeedsStorage ==
  Seeds \cup {[a \in {"A2"} |-> ForkMemoryAccount(None, Some(1), Some([k \in {"K1"} |-> 0]), None)]}

InitStorage == InitWith(Vicinities, SeedsStorage, Blocks)

StorageOps ==
  DeleteOps({"A1"})
    \cup ModifyOps({"A1"}, {1}, {0}, {None}, SeqUpTo(Keys \X {0, 1}, MaxUpdates), BOOLEAN)
\* and batches of up to MaxDiffLen elements of a few kinds.
StoragePairOps ==
  { Delete("A1"),
    Modify("A1", 1, 0, None, <<<<"K1", 1>>>>, FALSE),
    Modify("A1", 0, 1, Some(<<1>>), <<<<"K1", 0>>>>, FALSE),
    Modify("A2", 1, 0, None, <<<<"K1", 1>>>>, FALSE) }
StorageDiffs == SeqUpTo(StorageOps, 1) \cup SeqUpTo(StoragePairOps, MaxDiffLen)

NextStorage ==
  \/ CallExists(Addresses)
  \/ CallStorage(Addresses, Keys, FALSE)
  \/ CallApply(StorageDiffs, {<<>>})

SpecStorage == InitStorage /\ [][NextStorage]_vars

\* SpecCount: the reads of A1 are counted between commits; a commit is a
\* Delete of A1 or one Modify of it that resolves every field.
CountOps ==
  DeleteOps({"A1"})
    \cup ModifyOps({"A1"}, {1}, {0}, {None, Some(<<1>>)}, {<<>>, <<<<"K1", 1>>>>}, {FALSE})
CountDiffs == SeqUpTo(CountOps, 1)

NextCount ==
  \/ CallExists({"A1"})
  \/ CallBasic({"A1"}, TRUE)
  \/ CallCode({"A1"}, TRUE)
  \/ CallCodeHash({"A1"}, TRUE)
  \/ CallCodeSize({"A1"}, TRUE)
  \/ CallStorage({"A1"}, {"K1"}, TRUE)
  \/ CallBlockHash(0..3)
  \/ CallApply(CountDiffs, {<<>>})

SpecCount == Init /\ [][NextCount]_vars

\* SpecLogs: commits carry every batch of logs; the values are a Delete or
\* one Modify of A1.
LogOps ==
  DeleteOps({"A1"}) \cup ModifyOps({"A1"}, {1}, {0}, {Some(<<1>>)}, {<<<<"K1", 1>>>>}, {FALSE})
LogDiffs == SeqUpTo(LogOps, 1)
LogBatches == SeqUpTo(Logs, MaxLogs)

NextLogs ==
  \/ CallExists(Addresses)
  \/ CallBasic(Addresses, FALSE)
  \/ CallCode(Addresses, FALSE)
  \/ CallCodeHash(Addresses, FALSE)
  \/ CallCodeSize(Addresses, FALSE)
  \/ CallStorage(Addresses, {"K1"}, FALSE)
  \/ CallBlockHash(0..3)
  \/ CallApply(LogDiffs, LogBatches)

SpecLogs == Init /\ [][NextLogs]_vars

\* SpecHash: every vicinity of up to MaxBlock blocks and up to MaxWindow
\* hashes; block_hash is called with every number up to one past MaxBlock.
HashVicinities ==
  {MemoryVicinity(b, w) : b \in 0..MaxBlock, w \in SeqUpTo(H256, MaxWindow)}

InitHash == InitWith(HashVicinities, {EmptyMap}, Blocks)

NextHash ==
  \/ CallExists({"A1"})
  \/ CallBlockHash(0..(MaxBlock + 1))
  \/ CallApply(LogDiffs, {<<>>})

SpecHash == InitHash /\ [][NextHash]_vars

\* SpecCode: batches of one element, a Delete or a Modify of zero balance
\* and nonce with no code, empty code or code, over both addresses, and
\* batches of up to MaxDiffLen elements of a few kinds; the reads are
\* exists and the three code reads.
CodeOps ==
  DeleteOps(Addresses)
    \cup ModifyOps(Addresses, {0}, {0}, {None, Some(<<>>), Some(<<1>>)}, {<<>>}, {FALSE})
CodeSeqOps ==
  { Delete("A1"),
    Modify("A1", 0, 0, None, <<>>, FALSE),
    Modify("A1", 0, 0, Some(<<1>>), <<>>, FALSE) }
CodeDiffs == SeqUpTo(CodeOps, 1) \cup SeqUpTo(CodeSeqOps, MaxDiffLen)

NextCode ==
  \/ CallExists(Addresses)
  \/ CallCode(Addresses, FALSE)
  \/ CallCodeHash(Addresses, FALSE)
  \/ CallCodeSize(Addresses, FALSE)
  \/ CallApply(CodeDiffs, {<<>>})

SpecCode == Init /\ [][NextCode]_vars

\* SpecBlock: the backend is built with no block, block 0 or block 1; the
\* reads are exists and those that ask the provider, over both addresses
\* and keys, the commits those of SpecCount.
PinnedBlocks == {None, Some(0), Some(1)}

InitBlock == InitWith(Vicinities, Seeds, PinnedBlocks)

NextBlock ==
  \/ CallExists(Addresses)
  \/ CallBasic(Addresses, FALSE)
  \/ CallCode(Addresses, FALSE)
  \/ CallCodeHash(Addresses, FALSE)
  \/ CallCodeSize(Addresses, FALSE)
  \/ CallStorage(Addresses, Keys, FALSE)
  \/ CallApply(CountDiffs, {<<>>})

SpecBlock == InitBlock /\ [][NextBlock]_vars

\* SpecTwin: the backend and its twin are each read (basic, code and
\* storage of A1) between commits of one element with or without a log.
TwinLogBatches == {<<>>, <<"L1">>}

\* fn new called twice with the same arguments.
InitTwin ==
  /\ vicinity \in Vicinities
  /\ state \in Seeds
  /\ logs = <<>>
  /\ block \in Blocks
  /\ op = Call("new", NoIndex, NoIndex, 0, Returned(TRUE), <<>>, <<>>, FALSE, <<>>, FALSE)
  /\ last_named = [a \in Addresses |-> NeverNamed]
  /\ counts = ZeroCounts
  /\ twin = [NoTwin EXCEPT !.paired = TRUE, !.state = state]

NextTwin ==
  \/ CallBasic({"A1"}, FALSE)
  \/ CallCode({"A1"}, FALSE)
  \/ CallStorage({"A1"}, {"K1"}, FALSE)
  \/ TwinBasic({"A1"})
  \/ TwinCode({"A1"})
  \/ TwinStorage({"A1"}, {"K1"})
  \/ CallApply(CountDiffs, TwinLogBatches)

SpecTwin == InitTwin /\ [][NextTwin]_vars

\* ----------------------------------------------------------------- claims

\* The storage map of address a in st, when st holds one for it.
StoredMap(st, a) == Unwrap(st[a].storage)

\* C1: a storage read of a key the overlay holds returns the held value
\* and sends the provider nothing.
C1_CachedStorageReadAsksNothing ==
  (op.kind = "storage" /\ ~Unresolved(state, op.address, op.index))
    => /\ op.result = Returned(StoredMap(state, op.address)[op.index])
       /\ op.queries = <<>>

\* C2: a read of any kind leaves the account map and the log as they were,
\* served from the overlay or from the provider; only apply changes them.
C2_ReadsLeaveOverlay ==
  [][ /\ op'.kind \in ReadKinds => (state' = state /\ logs' = logs)
      /\ (state' # state \/ logs' # logs) => op'.kind = "apply" ]_vars

C2_Witness ==
  /\ op.kind = "basic" /\ op.address = "A2" /\ Len(op.queries) = 2 /\ Running
  /\ "A1" \in DOMAIN state /\ "A2" \notin DOMAIN state
  /\ logs # <<>>

\* C3: when the last element of any applied batch naming an address was a
\* Modify, basic of that address returns the Modify's balance and nonce
\* and sends the provider nothing.
C3_ModifiedBasicFromOverlay ==
  (op.kind = "basic" /\ last_named[op.address].tag = "Modify")
    => /\ op.result = Returned(last_named[op.address].basic)
       /\ op.queries = <<>>

C3_Witness ==
  /\ op.kind = "basic" /\ op.address = "A1"
  /\ last_named["A1"] = [tag |-> "Modify", basic |-> [balance |-> 0, nonce |-> 1]]
  /\ last_named["A2"].tag = "Delete"
  /\ op.result = Returned([balance |-> 0, nonce |-> 1])

\* C4: a read whose fields the record holds returns the held values and
\* sends the provider nothing, zero and the empty byte string included.
C4_ResolvedFieldsFromOverlay ==
  /\ (op.kind = "basic" /\ ~Unresolved(state, op.address, "balance")
                        /\ ~Unresolved(state, op.address, "nonce"))
       => /\ op.queries = <<>>
          /\ op.result = Returned([balance |-> Unwrap(state[op.address].balance),
                                   nonce |-> Unwrap(state[op.address].nonce)])
  /\ (op.kind \in {"code", "code_size", "code_hash"} /\ ~Unresolved(state, op.address, "code"))
       => /\ op.queries = <<>>
          /\ op.kind = "code" => op.result = Returned(Unwrap(state[op.address].code))
          /\ op.kind = "code_size" => op.result = Returned(Len(Unwrap(state[op.address].code)))
          /\ op.kind = "code_hash" => op.result = Returned(Keccak256(Unwrap(state[op.address].code)))

C4_Witness ==
  /\ op.kind = "basic" /\ op.address = "A1" /\ op.queries = <<>>
  /\ op.result = Returned([balance |-> 0, nonce |-> 0])
  /\ state["A1"].code = Some(<<>>)

\* C5: between two commits, every read of a field the overlay does not
\* hold sends one provider request for it, and the field stays unresolved.
C5_UnresolvedReadsAlwaysAsk ==
  Running =>
    \A x \in Addresses \X Fields :
      counts.reads[x] > 0 =>
        /\ counts.queries[x] = counts.reads[x]
        /\ Unresolved(state, x[1], x[2])

C5_Witness ==
  /\ Running
  /\ counts.reads[<<"A1", "code">>] = MaxReads
  /\ counts.reads[<<"A1", "balance">>] = MaxReads
  /\ counts.reads[<<"A1", "K1">>] = MaxReads
  /\ "A1" \in DOMAIN state

\* The value of the last pair of an update list naming key, if any.
LastValue(updates, key) ==
  LET idx == {i \in DOMAIN updates : updates[i][1] = key}
  IN IF idx = {} THEN None
     ELSE Some(updates[CHOOSE i \in idx : \A j \in idx : j <= i][2])

\* The last element of a batch naming address a, if any.
LastElement(values, a) ==
  LET idx == {i \in DOMAIN values : values[i].address = a}
  IN IF idx = {} THEN None
     ELSE Some(values[CHOOSE i \in idx : \A j \in idx : j <= i])

\* The batch just applied ends, for address a, in a Modify.
EndsInModify(values, a) ==
  IsSome(LastElement(values, a)) /\ Unwrap(LastElement(values, a)).tag = "Modify"

\* The call is a storage read that asked the provider for the slot (at
\* block None) and returned its answer, a panic on Err.
ReadEscalated(call) ==
  /\ Len(call.queries) = 1
  /\ call.queries[1] = Query("get_storage_at", call.address, call.index, None,
                             call.queries[1].answer)
  /\ call.result = call.queries[1].answer

\* Some Modify of the batch names a and holds the pair (key, 0).
HasZeroUpdate(values, a, key) ==
  \E i \in DOMAIN values :
    /\ values[i].tag = "Modify" /\ values[i].address = a
    /\ \E j \in DOMAIN values[i].storage : values[i].storage[j] = <<key, 0>>

\* The batch ends, for a, in a Modify whose last pair for key is (key, 0).
EndsInZeroUpdate(values, a, key) ==
  /\ EndsInModify(values, a)
  /\ LastValue(Unwrap(LastElement(values, a)).storage, key) = Some(0)

\* C6 as claimed: a commit with a Modify of A whose updates contain
\* (key, 0) leaves key out of A's storage map, and the storage read of
\* (A, key) that follows asks the provider and returns the provider's value.
C6_AnyZeroUpdateRemovesKey ==
  [][ ( /\ op'.kind = "storage" /\ op.kind = "apply"
        /\ HasZeroUpdate(op.values, op'.address, op'.index) )
      => (Unresolved(state, op'.address, op'.index) /\ ReadEscalated(op')) ]_vars

\* C6 amended: a commit whose last element naming A is a Modify in whose
\* updates the last pair for key is (key, 0) leaves A with a resolved map
\* without key, and the storage read of (A, key) that follows asks the
\* provider and returns the provider's value.
C6_LastZeroUpdateRemovesKey ==
  [][ ( /\ op'.kind = "storage" /\ op.kind = "apply"
        /\ EndsInZeroUpdate(op.values, op'.address, op'.index) )
      => /\ op'.address \in DOMAIN state /\ IsSome(state[op'.address].storage)
         /\ op'.index \notin DOMAIN StoredMap(state, op'.address)
         /\ ReadEscalated(op') ]_vars

C6_Witness ==
  /\ op.kind = "apply"
  /\ op.values = <<Modify("A1", 1, 0, None, <<<<"K1", 1>>, <<"K1", 0>>>>, FALSE)>>
  /\ state["A1"].storage = Some([k \in {"K2"} |-> 1])

NoZeroStored(st, a) ==
  IsSome(st[a].storage) => \A k \in DOMAIN StoredMap(st, a) : StoredMap(st, a)[k] # 0

\* C7 as claimed: after a commit no record's storage map holds a zero.
C7_NoZeroAfterCommit ==
  op.kind = "apply" => \A a \in DOMAIN state : NoZeroStored(state, a)

\* C7 amended: the storage map of every record whose address a committed
\* Modify has named (and no later Delete) is resolved and holds no zero.
C7_NoZeroInModifiedRecords ==
  \A a \in Addresses :
    last_named[a].tag = "Modify"
      => a \in DOMAIN state /\ IsSome(state[a].storage) /\ NoZeroStored(state, a)

C7_Witness ==
  /\ op.kind = "apply"
  /\ last_named["A1"].tag = "Modify" /\ last_named["A2"].tag = "none"
  /\ "A2" \in DOMAIN state
  /\ state["A1"].storage = Some([k \in {"K1"} |-> 1])
  /\ state["A2"].storage = Some([k \in {"K1"} |-> 0])

\* C8: once the last element naming A is a Delete, A has no record,
\* exists(A) is false, and basic(A) asks the provider for the balance and
\* then the nonce (at the pinned block) and returns what it answered.
C8_DeletedReadsEscalate ==
  /\ \A a \in Addresses : last_named[a].tag = "Delete" => a \notin DOMAIN state
  /\ (op.kind = "exists" /\ last_named[op.address].tag = "Delete")
       => op.result = Returned(FALSE)
  /\ (op.kind = "basic" /\ last_named[op.address].tag = "Delete")
       => /\ Len(op.queries) >= 1
          /\ op.queries[1] = Query("get_balance", op.address, NoIndex, block, op.queries[1].answer)
          /\ IsOk(op.queries[1].answer) =>
               /\ Len(op.queries) = 2
               /\ op.queries[2] = Query("get_transaction_count", op.address, NoIndex, block,
                                        op.queries[2].answer)
          /\ Running =>
               op.result = Returned([balance |-> Unwrap(op.queries[1].answer),
                                     nonce |-> Unwrap(op.queries[2].answer)])

C8_Witness ==
  /\ op.kind = "basic" /\ op.address = "A1" /\ last_named["A1"].tag = "Delete"
  /\ op.result = Returned([balance |-> 1, nonce |-> 1])
  /\ "A2" \in DOMAIN state

\* C9: a commit of one Modify that repeats the commit just before it
\* leaves the record of its address as the first commit left it.
C9_RepeatedModifyIdempotent ==
  [][ (op'.kind = "apply" /\ op'.again /\ Len(op'.values) = 1 /\ op'.values[1].tag = "Modify")
        => LET a == op'.values[1].address
           IN a \in DOMAIN state /\ a \in DOMAIN state' /\ state'[a] = state[a] ]_vars

C9_Witness ==
  /\ op.kind = "apply" /\ op.again
  /\ op.values = <<Modify("A1", 1, 0, None, <<<<"K1", 1>>, <<"K2", 0>>>>, FALSE)>>
  /\ state["A1"].code = Some(<<1>>)

\* C10 as claimed: after a commit whose last element naming A is a Modify
\* with reset_storage, A's map is resolved, empty when there are no
\* updates, and otherwise holds exactly the non-zero pairs of the updates.
C10_ResetKeepsNonZeroUpdates ==
  op.kind = "apply" =>
    \A a \in Addresses :
      (EndsInModify(op.values, a) /\ Unwrap(LastElement(op.values, a)).reset_storage)
        => LET u == Unwrap(LastElement(op.values, a)).storage
               nonzero == {i \in DOMAIN u : u[i][2] # 0}
           IN /\ a \in DOMAIN state /\ IsSome(state[a].storage)
              /\ u = <<>> => StoredMap(state, a) = EmptyMap
              /\ DOMAIN StoredMap(state, a) = {u[i][1] : i \in nonzero}
              /\ \A i \in nonzero : StoredMap(state, a)[u[i][1]] = u[i][2]

\* C10 amended: ... and otherwise holds, for each key whose last pair in
\* the updates is non-zero, that last value, and no other key.
C10_ResetKeepsLastNonZeroUpdates ==
  op.kind = "apply" =>
    \A a \in Addresses :
      (EndsInModify(op.values, a) /\ Unwrap(LastElement(op.values, a)).reset_storage)
        => LET u == Unwrap(LastElement(op.values, a)).storage
               kept == {k \in Keys : LastValue(u, k) \notin {None, Some(0)}}
           IN /\ a \in DOMAIN state /\ IsSome(state[a].storage)
              /\ u = <<>> => StoredMap(state, a) = EmptyMap
              /\ StoredMap(state, a) = [k \in kept |-> Unwrap(LastValue(u, k))]

C10_Witness ==
  /\ op.kind = "apply"
  /\ op.values = <<Modify("A1", 1, 0, None, <<>>, TRUE)>>
  /\ state["A1"].storage = Some(EmptyMap)
  /\ state["A1"].code = Some(<<1>>)

\* C11: a read one of whose provider requests fails returns no value (it
\* panics, the failed request being the last it sent), and leaves the
\* account map and the log as they were.
C11_FailedQueryAbortsRead ==
  [][ (op'.kind \in ReadKinds /\ \E i \in DOMAIN op'.queries : ~IsOk(op'.queries[i].answer))
        => /\ Panicked(op'.result)
           /\ ~IsOk(op'.queries[Len(op'.queries)].answer)
           /\ state' = state /\ logs' = logs ]_vars

C11_Witness ==
  /\ op.kind = "basic" /\ op.address = "A1" /\ Panicked(op.result)
  /\ Len(op.queries) = 2 /\ op.queries[1].answer = Ok(0) /\ op.queries[2].answer = Err
  /\ "A1" \in DOMAIN state /\ state["A1"] = DefaultAccount

\* C12: block_hash(number), for block number B and a window of W hashes,
\* returns zero when number >= B or B - number - 1 >= W, and the window
\* entry at 0-based index B - number - 1 otherwise; it never panics and
\* sends the provider nothing.
C12_BlockHashWindow ==
  op.kind = "block_hash" =>
    LET B == vicinity.block_number
        W == Len(vicinity.block_hashes)
        n == op.number
    IN /\ op.queries = <<>>
       /\ ~Panicked(op.result)
       /\ (n >= B \/ B - n - 1 >= W) => op.result = Returned(0)
       /\ (n < B /\ B - n - 1 < W) => op.result = Returned(vicinity.block_hashes[(B - n - 1) + 1])

C12_Witness ==
  /\ op.kind = "block_hash" /\ op.number = 1
  /\ vicinity = MemoryVicinity(3, <<0, 1>>)
  /\ op.result = Returned(1)

\* The requests a read of this kind sends for an address without a record.
IsEscalation(call) ==
  LET qs == call.queries
      Asks(i, method, index, blk) ==
        /\ i \in DOMAIN qs
        /\ qs[i] = Query(method, call.address, index, blk, qs[i].answer)
  IN CASE call.kind = "basic" ->
            /\ Asks(1, "get_balance", NoIndex, block)
            /\ IsOk(qs[1].answer) =>
                 Len(qs) = 2 /\ Asks(2, "get_transaction_count", NoIndex, block)
            /\ ~Panicked(call.result) =>
                 call.result = Returned([balance |-> Unwrap(qs[1].answer),
                                         nonce |-> Unwrap(qs[2].answer)])
       [] call.kind \in {"code", "code_size", "code_hash"} ->
            /\ Len(qs) = 1 /\ Asks(1, "get_code", NoIndex, block)
            /\ ~Panicked(call.result) =>
                 call.result = Returned(CASE call.kind = "code" -> Unwrap(qs[1].answer)
                                          [] call.kind = "code_size" -> Len(Unwrap(qs[1].answer))
                                          [] OTHER -> Keccak256(Unwrap(qs[1].answer)))
       [] call.kind = "storage" ->
            /\ Len(qs) = 1 /\ Asks(1, "get_storage_at", call.index, None)
            /\ call.result = qs[1].answer
       [] OTHER -> TRUE

\* C13: exists(address) is true exactly when the account map has a record
\* under the address, an all-None record included, and sends the provider
\* nothing; for an address without a record, basic, code, code_size,
\* code_hash and storage each ask the provider for what they read.
C13_ExistsIffRecord ==
  /\ op.kind = "exists" =>
       /\ op.result = Returned(op.address \in DOMAIN state)
       /\ op.queries = <<>>
  /\ (op.kind \in {"basic", "code", "code_size", "code_hash", "storage"}
        /\ op.address \notin DOMAIN state)
       => IsEscalation(op)

C13_Witness ==
  /\ op.kind = "exists" /\ op.address = "A1" /\ op.result = Returned(TRUE)
  /\ state["A1"] = DefaultAccount

\* C14: a commit leaves the log as the log before it followed by the
\* commit's logs, in their order and with their repetitions; no other call
\* changes the log.
C14_LogAppendOnly ==
  [][ logs' = logs \o (IF op'.kind = "apply" THEN op'.new_logs ELSE <<>>) ]_vars

C14_Witness ==
  /\ op.kind = "apply" /\ op.new_logs = <<"L1">>
  /\ logs = <<"L2", "L1">>

\* C15: after a commit whose last element naming A is a Modify, A has a
\* record, whatever delete_empty and the Modify's balance, nonce and code.
C15_ModifyKeepsRecord ==
  op.kind = "apply" =>
    \A a \in Addresses : EndsInModify(op.values, a) => a \in DOMAIN state

C15_Witness ==
  /\ op.kind = "apply" /\ op.delete_empty
  /\ op.values = <<Modify("A2", 0, 0, None, <<>>, FALSE)>>
  /\ "A2" \in DOMAIN state
  /\ state["A2"] = ForkMemoryAccount(Some(0), Some(0), Some(EmptyMap), None)

\* The element of a batch naming address a before the last one naming it.
PrevElement(values, a) ==
  LET idx == {i \in DOMAIN values : values[i].address = a}
      last == CHOOSE i \in idx : \A j \in idx : j <= i
  IN IF Cardinality(idx) < 2 THEN None
     ELSE Some(values[CHOOSE i \in idx \ {last} : \A j \in idx \ {last} : j <= i])

\* The record a Modify builds from Default::default(): its balance and
\* nonce, its code if it has one, the last non-zero values of its updates.
BuiltFromDefault(m) ==
  ForkMemoryAccount(Some(m.basic.nonce), Some(m.basic.balance),
    Some([k \in {x \in Keys : LastValue(m.storage, x) \notin {None, Some(0)}}
            |-> Unwrap(LastValue(m.storage, k))]),
    m.code)

\* C16: after a commit in which the last two elements naming A are a Modify
\* then a Delete, A has no record; when they are a Delete then a Modify, A's
\* record is the one that Modify builds from the default record.
C16_DiffOrder ==
  op.kind = "apply" =>
    \A a \in Addresses :
      IsSome(PrevElement(op.values, a)) =>
        LET prev == Unwrap(PrevElement(op.values, a))
            last == Unwrap(LastElement(op.values, a))
        IN /\ (prev.tag = "Modify" /\ last.tag = "Delete") => a \notin DOMAIN state
           /\ (prev.tag = "Delete" /\ last.tag = "Modify")
                => a \in DOMAIN state /\ state[a] = BuiltFromDefault(last)

C16_Witness ==
  /\ op.kind = "apply"
  /\ op.values = <<Delete("A1"), Modify("A1", 1, 0, None, <<<<"K1", 1>>>>, FALSE)>>
  /\ state["A1"] = ForkMemoryAccount(Some(0), Some(1), Some([k \in {"K1"} |-> 1]), None)

\* C17: self.block never changes; every balance, nonce and code request
\* names self.block, every storage request names no block.
C17_QueryBlocks ==
  [][ /\ block' = block
      /\ \A i \in DOMAIN op'.queries :
           op'.queries[i].block =
             IF op'.queries[i].method = "get_storage_at" THEN None ELSE block ]_vars

C17_Witness ==
  /\ op.kind = "storage" /\ block = Some(1)
  /\ Len(op.queries) = 1 /\ op.queries[1].block = None
  /\ "A1" \in DOMAIN state /\ IsSome(state["A1"].balance)

\* C18: a commit sends the provider nothing and leaves every address that
\* no element of its batch names as it was: without a record, or with the
\* same record.
C18_CommitTouchesNamedOnly ==
  [][ op'.kind = "apply" =>
        /\ op'.queries = <<>>
        /\ \A a \in Addresses :
             (\A i \in DOMAIN op'.values : op'.values[i].address # a)
               => /\ a \in DOMAIN state <=> a \in DOMAIN state'
                  /\ a \in DOMAIN state => state'[a] = state[a] ]_vars

C18_Witness ==
  /\ op.kind = "apply"
  /\ op.values = <<Delete("A1"), Modify("A1", 0, 0, None, <<>>, FALSE)>>
  /\ "A2" \in DOMAIN state /\ state["A2"].code = Some(<<1>>)
  /\ state["A1"].code = None

\* Address a's code is resolved in st.
CodeResolved(st, a) == a \in DOMAIN st /\ IsSome(st[a].code)

\* Some Modify of the batch names a, has code, and no Delete of a follows it.
CodeSupplied(values, a) ==
  \E i \in DOMAIN values :
    /\ values[i].tag = "Modify" /\ values[i].address = a /\ IsSome(values[i].code)
    /\ \A j \in DOMAIN values :
         (j > i /\ values[j].address = a) => values[j].tag = "Modify"

\* No element of the batch is a Delete of a.
NeverDeleted(values, a) ==
  \A i \in DOMAIN values : values[i].address = a => values[i].tag = "Modify"

\* C20: while the last element naming A is a Modify, A's balance, nonce and
\* storage map are resolved.  A's code is resolved after such a commit
\* exactly when a Modify of the commit supplied code with no Delete of A
\* after it, or the code was resolved before and the commit has no Delete
\* of A; no read resolves it.  A code, code_size or code_hash read of A
\* while its code is unresolved asks the provider for it.
C20_CodeResolvedOnlyBySupply ==
  [][ /\ \A a \in Addresses :
           last_named'[a].tag = "Modify" =>
             /\ a \in DOMAIN state'
             /\ IsSome(state'[a].balance) /\ IsSome(state'[a].nonce)
             /\ IsSome(state'[a].storage)
      /\ op'.kind = "apply" =>
           \A a \in Addresses :
             EndsInModify(op'.values, a) =>
               (CodeResolved(state', a)
                  <=> \/ CodeSupplied(op'.values, a)
                      \/ NeverDeleted(op'.values, a) /\ CodeResolved(state, a))
      /\ op'.kind \in ReadKinds =>
           \A a \in Addresses : CodeResolved(state', a) <=> CodeResolved(state, a)
      /\ ( /\ op'.kind \in {"code", "code_size", "code_hash"}
            /\ last_named'[op'.address].tag = "Modify"
            /\ ~CodeResolved(state', op'.address) )
           => IsEscalation(op') ]_vars

C20_Witness ==
  /\ op.kind = "code_size" /\ op.address = "A2"
  /\ last_named["A2"].tag = "Modify"
  /\ state["A2"].code = None
  /\ Len(op.queries) = 1 /\ op.result = Returned(1)

\* C19: after every commit the backend and its twin, built from the same
\* state and handed the same commits, hold the same account map and the
\* same log, whatever each was read and answered in between.
C19_OverlayDependsOnCommitsOnly ==
  (op.kind = "apply" /\ twin.paired) => (twin.state = state /\ twin.logs = logs)

C19_Witness ==
  /\ op.kind = "apply" /\ op.values = <<Modify("A1", 1, 0, None, <<>>, FALSE)>>
  /\ twin.paired /\ twin.op.kind = "code" /\ twin.op.result = Returned(<<1>>)
  /\ Len(twin.op.queries) = 1
  /\ state["A1"].code = None /\ twin.state = state
  /\ logs = <<"L1">>

====
